---- MODULE Spec2Model ----
(***************************************************************************)
(* A model of tiny-nix-ipc (src/src/lib.rs): the Socket wrapper around one *)
(* end of an AF_UNIX/SOCK_SEQPACKET pair, its raw, length-prefixed,        *)
(* fixed-record and codec send/receive calls, and the descriptors passed   *)
(* as SCM_RIGHTS ancillary data.                                           *)
(*                                                                         *)
(* The kernel is modelled by what the calls rely on: a descriptor table,   *)
(* one receive queue of whole datagrams per channel end, and the delivery  *)
(* of passed descriptors into the receiver's control buffer.               *)
(***************************************************************************)
EXTENDS Integers, Sequences, FiniteSets, TLC

VARIABLES
    fdt,        \* descriptor table of the process: fd number -> entry
    socks,      \* the Socket values: id -> [st, fd]
    hands,      \* descriptor numbers the caller of the library owns
    npairs,     \* socketpair(2) calls that succeeded
    inbox,      \* kernel receive queue of each channel end
    lim,        \* [queue: datagrams a receive queue holds before a send
                \*  blocks, sends: datagrams one channel end is ever sent]
    word,       \* bytes of usize and of the CMSG_ALIGN unit on the target
    nsent,      \* datagrams ever queued for each channel end
    ntaken,     \* datagrams ever taken from each channel end's queue: all
                \* of them, and those taken by calls that returned
    closes,     \* log of the close(2) calls made by Drop
    res         \* the last call: its inputs and its outcome

vars == <<fdt, socks, hands, npairs, inbox, lim, word, nsent, ntaken, closes, res>>

(***************************************************************************)
(* Bounds of the model.                                                    *)
(***************************************************************************)
MaxFd == 6        \* descriptor numbers are 1..MaxFd
MaxSocks == 3     \* Socket values ever constructed in one behaviour
MaxN == 2         \* receivers instantiate F as [RawFd; n], n in 0..MaxN
MaxQueue == 1     \* queue capacity in the round-trip specifications
MaxSends == 1     \* datagrams per channel end in the round-trip specifications
SeqQueue == 2     \* queue capacity in the sequencing specification
SeqSends == 2     \* datagrams per channel end in the sequencing specification

SizeOfU64 == 8    \* mem::size_of::<u64>()
SizeOfRawFd == 4  \* mem::size_of::<RawFd>()

(***************************************************************************)
(* Bytes and sequences.                                                    *)
(***************************************************************************)
Min(a, b) == IF a <= b THEN a ELSE b

Take(s, n) == SubSeq(s, 1, Min(n, Len(s)))

Zeros(n) == [i \in 1..n |-> 0]

IsPrefix(p, s) == Len(p) <= Len(s) /\ SubSeq(s, 1, Len(p)) = p

RECURSIVE Concat(_)
Concat(ss) == IF ss = <<>> THEN <<>> ELSE Head(ss) \o Concat(Tail(ss))

\* The memory image of a u64 holding n (n small): 8 bytes, least significant
\* first.  Sender and receiver are on one machine, so one byte order serves.
RECURSIVE LeBytes(_, _)
LeBytes(n, k) ==
    IF k = 0 THEN <<>> ELSE <<n % 256>> \o LeBytes(n \div 256, k - 1)

U64Bytes(n) == LeBytes(n, SizeOfU64)

\* A u64 image whose value does not fit the model's integers.
U64Huge(b) == \E i \in 4..SizeOfU64 : b[i] # 0

\* The value of a u64 image that is not huge.
U64Val(b) == b[1] + 256 * b[2] + 65536 * b[3]

\* u64 image + k with the carry out of the top byte: [sum, carry].
RECURSIVE AddCarry(_, _)
AddCarry(b, k) ==
    IF b = <<>> THEN [sum |-> <<>>, carry |-> k]
    ELSE LET t == Head(b) + k
             r == AddCarry(Tail(b), t \div 256)
         IN  [sum |-> <<t % 256>> \o r.sum, carry |-> r.carry]

(***************************************************************************)
(* The codecs (serde_cbor, serde_json, bincode), for values of type u64.   *)
(* Each is modelled by the bytes it writes and the bytes it accepts.       *)
(***************************************************************************)
Formats == {"Cbor", "Json", "Bincode"}

\* A value whose Serialize implementation reports an error.
Unserializable == -1

\* Stands for every u64 of 2^31 - 1 or more.
Saturated == 2147483647

EncFail == [ok |-> FALSE, bytes |-> <<>>]

DecFail == [ok |-> FALSE, val |-> 0]

\* CBOR major type 0: the shortest head that holds n, big-endian argument.
CborUint(n) ==
    IF n < 24 THEN <<n>>
    ELSE IF n < 256 THEN <<24, n>>
    ELSE IF n < 65536 THEN <<25, n \div 256, n % 256>>
    ELSE <<26, (n \div 16777216) % 256, (n \div 65536) % 256,
               (n \div 256) % 256, n % 256>>

\* serde_cbor::from_slice::<u64>: one unsigned integer, then the end of input.
CborParse(b) ==
    IF b = <<>> THEN DecFail
    ELSE IF b[1] < 24 /\ Len(b) = 1 THEN [ok |-> TRUE, val |-> b[1]]
    ELSE IF b[1] = 24 /\ Len(b) = 2 THEN [ok |-> TRUE, val |-> b[2]]
    ELSE IF b[1] = 25 /\ Len(b) = 3 THEN [ok |-> TRUE, val |-> 256 * b[2] + b[3]]
    ELSE IF b[1] = 26 /\ Len(b) = 5 /\ b[2] < 128
         THEN [ok |-> TRUE,
               val |-> 16777216 * b[2] + 65536 * b[3] + 256 * b[4] + b[5]]
    ELSE DecFail

RECURSIVE JsonDigits(_)
JsonDigits(n) ==
    IF n < 10 THEN <<48 + n>> ELSE JsonDigits(n \div 10) \o <<48 + (n % 10)>>

JsonWs == {32, 9, 10, 13}

RECURSIVE JsonStripL(_)
JsonStripL(b) ==
    IF b # <<>> /\ Head(b) \in JsonWs THEN JsonStripL(Tail(b)) ELSE b

RECURSIVE JsonStripR(_)
JsonStripR(b) ==
    IF b # <<>> /\ b[Len(b)] \in JsonWs
    THEN JsonStripR(SubSeq(b, 1, Len(b) - 1)) ELSE b

RECURSIVE JsonDigitsVal(_)
JsonDigitsVal(t) ==
    IF t = <<>> THEN 0
    ELSE 10 * JsonDigitsVal(SubSeq(t, 1, Len(t) - 1)) + (t[Len(t)] - 48)

\* serde_json::from_slice::<u64>: white space, a number without sign,
\* fraction or leading zero, white space.  (Numbers of ten digits or more
\* are beyond the model's integers; no input of the model has them.)
JsonParse(b) ==
    LET t == JsonStripR(JsonStripL(b))
    IN  IF t = <<>> \/ Len(t) > 9 THEN DecFail
        ELSE IF \E i \in 1..Len(t) : t[i] \notin 48..57 THEN DecFail
        ELSE IF Len(t) > 1 /\ t[1] = 48 THEN DecFail
        ELSE [ok |-> TRUE, val |-> JsonDigitsVal(t)]

\* bincode::deserialize::<u64>: the first 8 bytes, little-endian; bytes that
\* follow are ignored.
BincodeParse(b) ==
    IF Len(b) < SizeOfU64 THEN DecFail
    ELSE [ok |-> TRUE, val |-> IF U64Huge(b) THEN Saturated ELSE U64Val(b)]

\* serde_cbor::to_vec / serde_json::to_vec / bincode::serialize
to_vec(fmt, v) ==
    IF v = Unserializable THEN EncFail
    ELSE [ok |-> TRUE,
          bytes |-> CASE fmt = "Cbor" -> CborUint(v)
                      [] fmt = "Json" -> JsonDigits(v)
                      [] fmt = "Bincode" -> U64Bytes(v)]

\* serde_cbor::from_slice / serde_json::from_slice / bincode::deserialize
from_slice(fmt, b) ==
    CASE fmt = "Cbor" -> CborParse(b)
      [] fmt = "Json" -> JsonParse(b)
      [] fmt = "Bincode" -> BincodeParse(b)

(***************************************************************************)
(* The kernel: objects, the descriptor table, the queues.                  *)
(***************************************************************************)
MaxPairs == 1     \* socketpair(2) calls that succeed in one behaviour

Fds == 1..MaxFd

SockIds == 1..MaxSocks

Ends == 1..(2 * MaxPairs)

Peer(e) == IF e % 2 = 1 THEN e + 1 ELSE e - 1

NoObj == [k |-> "none", i |-> 0]

EndObj(e) == [k |-> "end", i |-> e]

ShmObj(i) == [k |-> "shm", i |-> i]

NoEntry == [obj |-> NoObj, cloexec |-> FALSE]

IsOpen(fd) == fd \in Fds /\ fdt[fd].obj # NoObj

FreeFds == {fd \in Fds : ~IsOpen(fd)}

\* The kernel hands out the lowest free numbers: the first k of them.
RECURSIVE LowestFree(_, _)
LowestFree(free, k) ==
    IF k = 0 \/ free = {} THEN <<>>
    ELSE LET f == CHOOSE x \in free : \A y \in free : x <= y
         IN  <<f>> \o LowestFree(free \ {f}, k - 1)

EndIsOpen(e) == \E fd \in Fds : fdt[fd].obj = EndObj(e)

\* The channel end a Socket's descriptor refers to; 0 when the descriptor
\* is closed or is no socket (EBADF, ENOTSOCK).
EndOf(s) ==
    LET fd == socks[s].fd
    IN  IF IsOpen(fd) /\ fdt[fd].obj.k = "end" THEN fdt[fd].obj.i ELSE 0

Live(s) == socks[s].st = "live"

\* Option<&[RawFd]> and Option<F>
NoFds == [some |-> FALSE, arr |-> <<>>]

SomeFds(a) == [some |-> TRUE, arr |-> a]

NoDgram == [data |-> <<>>, scm |-> <<>>, some |-> FALSE, seq |-> 0]

(***************************************************************************)
(* The record of a call: its inputs (op, sock, size, n, fmt) and its       *)
(* outcome.  st is "ok", "err" (with err the ErrorKind) or "panic".        *)
(***************************************************************************)
Idle ==
    [op |-> "none", sock |-> 0, size |-> 0, n |-> 0, fmt |-> "none",
     sent |-> <<>>, sfds |-> NoFds, st |-> "ok", err |-> "none",
     bytes |-> 0, buf |-> <<>>, len |-> <<>>, rfds |-> NoFds, val |-> 0,
     took |-> FALSE, dgram |-> NoDgram, decoded |-> FALSE]

(***************************************************************************)
(* Sending.                                                                *)
(***************************************************************************)
\* sendmsg(2) on the Socket's descriptor: iov is the scatter/gather array,
\* cmsgs the control messages, each the descriptor array of one ScmRights.
\* fail: the call fails for a reason outside the model (EINTR, ENOBUFS, ...).
\* The datagram carries the objects the descriptors refer to.
sendmsg(s, iov, cmsgs, fail) ==
    LET e == EndOf(s)
        data == Concat(iov)
        pass == Concat(cmsgs)
    IN  IF fail \/ e = 0 \/ ~EndIsOpen(Peer(e))
           \/ \E i \in 1..Len(pass) : ~IsOpen(pass[i])
        THEN [st |-> "err", err |-> "Nix", bytes |-> 0, e |-> 0,
              dgram |-> NoDgram]
        ELSE [st |-> "ok", err |-> "none", bytes |-> Len(data), e |-> Peer(e),
              dgram |-> [data |-> data,
                         scm |-> [i \in 1..Len(pass) |-> fdt[pass[i]].obj],
                         some |-> cmsgs # <<>>,
                         seq |-> nsent[Peer(e)] + 1]]

send_iovec(s, iov, fds, fail) ==
    IF fds.some THEN sendmsg(s, iov, <<fds.arr>>, fail)
    ELSE sendmsg(s, iov, <<>>, fail)

send_slice(s, data, fds, fail) == send_iovec(s, <<data>>, fds, fail)

\* send_slice_with_len with a header that counts itself.
send_slice_with_len_total(s, data, fds, fail) ==
    send_iovec(s, <<U64Bytes(Len(data) + SizeOfU64), data>>, fds, fail)

send_slice_with_len(s, data, fds, fail) ==
    send_iovec(s, <<U64Bytes(Len(data)), data>>, fds, fail)

send_struct_raw(s, image, fds, fail) == send_slice(s, image, fds, fail)

\* send_cbor / send_json / send_bincode
send_codec(s, fmt, v, fds, fail) ==
    LET enc == to_vec(fmt, v)
    IN  IF ~enc.ok
        THEN [st |-> "err", err |-> fmt, bytes |-> 0, e |-> 0,
              dgram |-> NoDgram]
        ELSE send_slice_with_len(s, enc.bytes, fds, fail)

\* What a send call changes: r is its outcome, computed by the operators
\* above.  A send whose queue is full blocks.
Sends(s, op, r, call) ==
    /\ Live(s)
    /\ r.st = "ok" => /\ Len(inbox[r.e]) < lim.queue
                      /\ nsent[r.e] < lim.sends
    /\ inbox' = IF r.st = "ok"
                THEN [inbox EXCEPT ![r.e] = Append(@, r.dgram)] ELSE inbox
    /\ nsent' = IF r.st = "ok" THEN [nsent EXCEPT ![r.e] = @ + 1] ELSE nsent
    /\ res' = [call EXCEPT !.op = op, !.sock = s, !.st = r.st, !.err = r.err,
                           !.bytes = r.bytes, !.dgram = r.dgram]
    /\ UNCHANGED <<fdt, socks, hands, npairs, lim, word, ntaken, closes>>

SendIovec(s, iov, fds) ==
    \E fail \in BOOLEAN :
        Sends(s, "send_iovec", send_iovec(s, iov, fds, fail),
              [Idle EXCEPT !.sent = Concat(iov), !.sfds = fds])

SendSlice(s, data, fds) ==
    \E fail \in BOOLEAN :
        Sends(s, "send_slice", send_slice(s, data, fds, fail),
              [Idle EXCEPT !.sent = data, !.sfds = fds])

SendSliceWithLen(s, data, fds) ==
    \E fail \in BOOLEAN :
        Sends(s, "send_slice_with_len", send_slice_with_len(s, data, fds, fail),
              [Idle EXCEPT !.sent = data, !.sfds = fds])

SendStructRaw(s, image, fds) ==
    \E fail \in BOOLEAN :
        Sends(s, "send_struct_raw", send_struct_raw(s, image, fds, fail),
              [Idle EXCEPT !.sent = image, !.sfds = fds])

SendCodec(s, fmt, v, fds) ==
    \E fail \in BOOLEAN :
        Sends(s, "send_codec", send_codec(s, fmt, v, fds, fail),
              [Idle EXCEPT !.fmt = fmt, !.val = v, !.sfds = fds])

(***************************************************************************)
(* Receiving.                                                              *)
(***************************************************************************)
\* CMSG_ALIGN
CmsgAlign(x) == ((x + word - 1) \div word) * word

\* The descriptors the kernel can put in a control buffer of
\* cmsg_space!([RawFd; n]) bytes: (msg_controllen - sizeof(struct cmsghdr))
\* / sizeof(int), where msg_controllen = CMSG_SPACE(n * sizeof(int)).
FdMax(n) == CmsgAlign(SizeOfRawFd * n) \div SizeOfRawFd

\* A receive that does not cut the datagram to the first buffer's capacity.
ScatterUnbounded(data, caps) ==
    IF caps = <<>> THEN <<>>
    ELSE <<data>> \o [i \in 1..(Len(caps) - 1) |-> Zeros(caps[i + 1])]

\* The bytes of one datagram laid into buffers of the given capacities,
\* which held zeros; what does not fit is discarded.
RECURSIVE Scatter(_, _)
Scatter(data, caps) ==
    IF caps = <<>> THEN <<>>
    ELSE LET got == Take(data, Head(caps))
         IN  <<got \o Zeros(Head(caps) - Len(got))>>
             \o Scatter(SubSeq(data, Len(got) + 1, Len(data)), Tail(caps))

\* recvmsg(2) with MSG_CMSG_CLOEXEC on the Socket's descriptor, into buffers
\* of capacities caps and a control buffer for n descriptors.  It takes one
\* whole datagram off the queue; with the queue empty and the peer closed it
\* returns 0 bytes.  fds: the numbers given to the descriptors delivered.
recvmsg(s, caps, n, fail) ==
    LET e == EndOf(s)
    IN  IF fail \/ e = 0
        THEN [st |-> "err", took |-> FALSE, e |-> 0, dgram |-> NoDgram,
              bytes |-> 0, slices |-> Scatter(<<>>, caps), fds |-> <<>>]
        ELSE IF inbox[e] = <<>>
        THEN [st |-> "ok", took |-> FALSE, e |-> e, dgram |-> NoDgram,
              bytes |-> 0, slices |-> Scatter(<<>>, caps), fds |-> <<>>]
        ELSE LET d == Head(inbox[e])
                 slices == Scatter(d.data, caps)
             IN  [st |-> "ok", took |-> TRUE, e |-> e, dgram |-> d,
                  bytes |-> Min(Len(d.data), Len(Concat(slices))),
                  slices |-> slices,
                  fds |-> LowestFree(FreeFds, Min(Len(d.scm), FdMax(n)))]

\* The call returns now: it does not block, and the descriptor table has
\* room for the descriptors delivered.
RecvReady(s, n, fail) ==
    LET e == EndOf(s)
    IN  \/ fail
        \/ e = 0
        \/ e # 0 /\ inbox[e] = <<>> /\ ~EndIsOpen(Peer(e))
        \/ /\ e # 0
           /\ inbox[e] # <<>>
           /\ Min(Len(Head(inbox[e]).scm), FdMax(n)) <= Cardinality(FreeFds)

\* recv_into_iovec returning the array F as it was initialised (zeros) when
\* no control message came.
recv_into_iovec_default(m, n) ==
    IF m.st = "err"
    THEN [st |-> "err", err |-> "Nix", bytes |-> 0, bufs |-> m.slices,
          rfds |-> NoFds]
    ELSE IF Len(m.fds) >= 1 /\ Len(m.fds) # n
    THEN [st |-> "panic", err |-> "none", bytes |-> 0, bufs |-> m.slices,
          rfds |-> NoFds]
    ELSE [st |-> "ok", err |-> "none", bytes |-> m.bytes, bufs |-> m.slices,
          rfds |-> SomeFds(IF Len(m.fds) >= 1 THEN m.fds ELSE Zeros(n))]

\* m: the outcome of recvmsg.  clone_from_slice panics unless the array F
\* and the received descriptors have the same length.
recv_into_iovec(m, n) ==
    IF m.st = "err"
    THEN [st |-> "err", err |-> "Nix", bytes |-> 0, bufs |-> m.slices,
          rfds |-> NoFds]
    ELSE IF Len(m.fds) >= 1
    THEN IF Len(m.fds) # n
         THEN [st |-> "panic", err |-> "none", bytes |-> 0, bufs |-> m.slices,
               rfds |-> NoFds]
         ELSE [st |-> "ok", err |-> "none", bytes |-> m.bytes,
               bufs |-> m.slices, rfds |-> SomeFds(m.fds)]
    ELSE [st |-> "ok", err |-> "none", bytes |-> m.bytes, bufs |-> m.slices,
          rfds |-> NoFds]

\* An outcome in the shape of the call record's outcome fields.
Out(st, err, bytes, buf, len, rfds, val, decoded) ==
    [st |-> st, err |-> err, bytes |-> bytes, buf |-> buf, len |-> len,
     rfds |-> rfds, val |-> val, decoded |-> decoded]

\* The ? operator: the callee's error or panic is the caller's.
Propagate(r) == Out(r.st, r.err, 0, <<>>, <<>>, NoFds, 0, FALSE)

recv_into_slice(m, n) ==
    LET r == recv_into_iovec(m, n)
    IN  IF r.st # "ok" THEN Propagate(r)
        ELSE Out("ok", "none", r.bytes, r.bufs[1], <<>>, r.rfds, 0, FALSE)

recv_into_buf(m, n) ==
    LET r == recv_into_iovec(m, n)
    IN  IF r.st # "ok" THEN Propagate(r)
        ELSE Out("ok", "none", r.bytes, r.bufs[1], <<>>, r.rfds, 0, FALSE)

\* len as usize: the low word bytes of the u64.
AsUsize(len) == [i \in 1..SizeOfU64 |-> IF i <= word THEN len[i] ELSE 0]

\* The buffer left at its capacity.
Untruncated(buf, len) == buf

\* Vec::truncate
Truncate(buf, len) ==
    IF U64Huge(AsUsize(len)) THEN buf ELSE Take(buf, U64Val(AsUsize(len)))

recv_into_buf_with_len(m, n) ==
    LET r == recv_into_iovec(m, n)
    IN  IF r.st # "ok" THEN Propagate(r)
        ELSE Out("ok", "none", r.bytes, Truncate(r.bufs[2], r.bufs[1]),
                 r.bufs[1], r.rfds, 0, FALSE)

recv_struct_raw(m, size, n) ==
    LET r == recv_into_buf(m, n)
    IN  IF r.st # "ok" THEN Propagate(r)
        ELSE IF r.bytes # size
        THEN Out("err", "WrongRecvLength", 0, <<>>, <<>>, NoFds, 0, FALSE)
        ELSE Out("ok", "none", r.bytes, r.buf, <<>>, r.rfds, 0, FALSE)

\* len as usize + mem::size_of::<u64>(), in usize arithmetic: [sum, carry].
LenPlusHeader(len) ==
    LET a == AddCarry(SubSeq(AsUsize(len), 1, word), SizeOfU64)
    IN  [sum |-> a.sum \o Zeros(SizeOfU64 - word), carry |-> a.carry]

\* recv_codec with the length check left out.
recv_codec_unchecked(fmt, m, n, checks) ==
    LET r == recv_into_buf_with_len(m, n)
    IN  IF r.st # "ok" THEN Propagate(r)
        ELSE LET dec == from_slice(fmt, r.buf)
             IN  IF ~dec.ok
                 THEN Out("err", fmt, 0, <<>>, <<>>, NoFds, 0, TRUE)
                 ELSE Out("ok", "none", 0, <<>>, <<>>, r.rfds, dec.val, TRUE)

\* recv_cbor / recv_json / recv_bincode.  An overflowing addition panics
\* in a build with overflow checks and wraps in one without.
recv_codec(fmt, m, n, checks) ==
    LET r == recv_into_buf_with_len(m, n)
    IN  IF r.st # "ok" THEN Propagate(r)
        ELSE LET want == LenPlusHeader(r.len)
             IN  IF want.carry # 0 /\ checks
                 THEN Out("panic", "none", 0, <<>>, <<>>, NoFds, 0, FALSE)
                 ELSE IF U64Bytes(r.bytes) # want.sum
                 THEN Out("err", "WrongRecvLength", 0, <<>>, <<>>, NoFds, 0,
                          FALSE)
                 ELSE LET dec == from_slice(fmt, r.buf)
                      IN  IF ~dec.ok
                          THEN Out("err", fmt, 0, <<>>, <<>>, NoFds, 0, TRUE)
                          ELSE Out("ok", "none", 0, <<>>, <<>>, r.rfds,
                                   dec.val, TRUE)

\* What a receive call changes: m is the outcome of its recvmsg, r the
\* outcome of the call.  The datagram is off the queue and the descriptors
\* delivered are open, close-on-exec, whatever the call then makes of them;
\* the caller owns those the call returns.
Receives(s, op, m, r, call) ==
    /\ Live(s)
    /\ inbox' = IF m.took THEN [inbox EXCEPT ![m.e] = Tail(@)] ELSE inbox
    /\ ntaken' = IF m.took
                 THEN [ntaken EXCEPT
                         ![m.e] = [all |-> @.all + 1,
                                   returned |-> @.returned
                                       + (IF r.st = "panic" THEN 0 ELSE 1)]]
                 ELSE ntaken
    /\ fdt' = [fd \in Fds |->
                 IF \E i \in 1..Len(m.fds) : m.fds[i] = fd
                 THEN [obj |-> m.dgram.scm[CHOOSE i \in 1..Len(m.fds) :
                                               m.fds[i] = fd],
                       cloexec |-> TRUE]
                 ELSE fdt[fd]]
    /\ hands' = IF r.st = "ok" /\ r.rfds.some
                THEN hands \cup {r.rfds.arr[i] : i \in 1..Len(r.rfds.arr)}
                ELSE hands
    /\ res' = [call EXCEPT !.op = op, !.sock = s, !.st = r.st, !.err = r.err,
                           !.bytes = r.bytes, !.buf = r.buf, !.len = r.len,
                           !.rfds = r.rfds, !.val = r.val,
                           !.decoded = r.decoded, !.took = m.took,
                           !.dgram = m.dgram]
    /\ UNCHANGED <<socks, npairs, lim, word, nsent, closes>>

\* recv_into_iovec with a scatter/gather array of the capacities caps
RecvIntoIovec(s, caps, n) ==
    \E fail \in BOOLEAN :
        /\ RecvReady(s, n, fail)
        /\ LET m == recvmsg(s, caps, n, fail)
               r == recv_into_iovec(m, n)
           IN  Receives(s, "recv_into_iovec", m,
                        IF r.st # "ok" THEN Propagate(r)
                        ELSE Out("ok", "none", r.bytes, Concat(r.bufs), <<>>,
                                 r.rfds, 0, FALSE),
                        [Idle EXCEPT !.size = Len(Concat(m.slices)), !.n = n])

RecvIntoSlice(s, size, n) ==
    \E fail \in BOOLEAN :
        /\ RecvReady(s, n, fail)
        /\ LET m == recvmsg(s, <<size>>, n, fail)
           IN  Receives(s, "recv_into_slice", m, recv_into_slice(m, n),
                        [Idle EXCEPT !.size = size, !.n = n])

RecvIntoBuf(s, size, n) ==
    \E fail \in BOOLEAN :
        /\ RecvReady(s, n, fail)
        /\ LET m == recvmsg(s, <<size>>, n, fail)
           IN  Receives(s, "recv_into_buf", m, recv_into_buf(m, n),
                        [Idle EXCEPT !.size = size, !.n = n])

RecvIntoBufWithLen(s, size, n) ==
    \E fail \in BOOLEAN :
        /\ RecvReady(s, n, fail)
        /\ LET m == recvmsg(s, <<SizeOfU64, size>>, n, fail)
           IN  Receives(s, "recv_into_buf_with_len", m,
                        recv_into_buf_with_len(m, n),
                        [Idle EXCEPT !.size = size, !.n = n])

\* recv_struct_raw::<T, F> (and recv_struct), size = mem::size_of::<T>()
RecvStructRaw(s, size, n) ==
    \E fail \in BOOLEAN :
        /\ RecvReady(s, n, fail)
        /\ LET m == recvmsg(s, <<size>>, n, fail)
           IN  Receives(s, "recv_struct_raw", m, recv_struct_raw(m, size, n),
                        [Idle EXCEPT !.size = size, !.n = n])

RecvCodec(s, fmt, size, n) ==
    \E fail \in BOOLEAN :
        /\ RecvReady(s, n, fail)
        /\ LET m == recvmsg(s, <<SizeOfU64, size>>, n, fail)
           IN  \E checks \in IF LenPlusHeader(m.slices[1]).carry # 0
                              THEN BOOLEAN ELSE {FALSE} :
                   Receives(s, "recv_codec", m, recv_codec(fmt, m, n, checks),
                            [Idle EXCEPT !.size = size, !.n = n, !.fmt = fmt])

(***************************************************************************)
(* Construction, descriptor access and destruction of Socket values.       *)
(***************************************************************************)
UnusedSocks == {s \in SockIds : socks[s].st = "unused"}

LowestUnused == CHOOSE s \in UnusedSocks : \A t \in UnusedSocks : s <= t

NoClose == [n |-> 0, hit |-> "none"]

\* from_raw_fd: a Socket value holding fd, nothing checked.
from_raw_fd(ss, fd) ==
    LET s == CHOOSE x \in {y \in SockIds : ss[y].st = "unused"} :
                 \A t \in {y \in SockIds : ss[y].st = "unused"} : x <= t
    IN  [ss EXCEPT ![s] = [st |-> "live", fd |-> fd]]

\* Socket::new_socketpair: socketpair(2) with SOCK_CLOEXEC, then from_raw_fd
\* of each descriptor.
NewSocketpair ==
    \E fail \in BOOLEAN :
        IF fail
        THEN /\ res' = [Idle EXCEPT !.op = "new_socketpair", !.st = "err",
                                    !.err = "Nix"]
             /\ UNCHANGED <<fdt, socks, hands, npairs, inbox, lim, word,
                            nsent, ntaken, closes>>
        ELSE /\ npairs < MaxPairs
             /\ Cardinality(FreeFds) >= 2
             /\ Cardinality(UnusedSocks) >= 2
             /\ LET ab == LowestFree(FreeFds, 2)
                    e == 2 * npairs + 1
                IN  /\ fdt' = [fdt EXCEPT
                                 ![ab[1]] = [obj |-> EndObj(e),
                                             cloexec |-> TRUE],
                                 ![ab[2]] = [obj |-> EndObj(e + 1),
                                             cloexec |-> TRUE]]
                    /\ socks' = from_raw_fd(from_raw_fd(socks, ab[1]), ab[2])
             /\ npairs' = npairs + 1
             /\ res' = [Idle EXCEPT !.op = "new_socketpair"]
             /\ UNCHANGED <<hands, inbox, lim, word, nsent, ntaken,
                            closes>>

\* FromRawFd for Socket, on a descriptor the caller owns: the new Socket
\* owns it from here on.
FromRawFd(fd) ==
    /\ fd \in hands
    /\ UnusedSocks # {}
    /\ socks' = from_raw_fd(socks, fd)
    /\ hands' = hands \ {fd}
    /\ res' = [Idle EXCEPT !.op = "from_raw_fd", !.sock = LowestUnused,
                           !.val = fd]
    /\ UNCHANGED <<fdt, npairs, inbox, lim, word, nsent, ntaken, closes>>

\* close(2): the descriptor table after it.
close_fdt(fd) == IF IsOpen(fd) THEN [fdt EXCEPT ![fd] = NoEntry] ELSE fdt

\* close(2): the queue of a channel end goes with its last descriptor.
close_inbox(fd) ==
    IF /\ IsOpen(fd)
       /\ fdt[fd].obj.k = "end"
       /\ Cardinality({g \in Fds : fdt[g].obj = fdt[fd].obj}) = 1
    THEN [inbox EXCEPT ![fdt[fd].obj.i] = <<>>] ELSE inbox

\* The log of Drop's close(2) calls, after Socket s made one.  hit: what the
\* call found under the number.
close_log(s) ==
    LET fd == socks[s].fd
    IN  [closes EXCEPT ![s] =
            [n |-> @.n + 1,
             hit |-> IF ~IsOpen(fd) THEN "EBADF"
                     ELSE IF fd \in hands THEN "callers"
                     ELSE IF \E t \in SockIds \ {s} :
                                 Live(t) /\ socks[t].fd = fd
                     THEN "shared"
                     ELSE "own"]]

\* IntoRawFd for Socket: mem::forget(self), so Drop does not run.
IntoRawFd(s) ==
    /\ Live(s)
    /\ socks' = [socks EXCEPT ![s].st = "forgotten"]
    /\ hands' = hands \cup {socks[s].fd}
    /\ res' = [Idle EXCEPT !.op = "into_raw_fd", !.sock = s,
                           !.val = socks[s].fd]
    /\ UNCHANGED <<fdt, npairs, inbox, lim, word, nsent, ntaken, closes>>

\* as_raw_fd taken as handing the descriptor to the caller.
AsRawFdGiving(s) ==
    /\ Live(s)
    /\ hands' = hands \cup {socks[s].fd}
    /\ res' = [Idle EXCEPT !.op = "as_raw_fd", !.sock = s, !.val = socks[s].fd]
    /\ UNCHANGED <<fdt, socks, npairs, inbox, lim, word, nsent, ntaken, closes>>

\* AsRawFd for Socket: the number, and nothing changes hands.
AsRawFd(s) ==
    /\ Live(s)
    /\ res' = [Idle EXCEPT !.op = "as_raw_fd", !.sock = s, !.val = socks[s].fd]
    /\ UNCHANGED <<fdt, socks, hands, npairs, inbox, lim, word, nsent, ntaken,
                   closes>>

\* no_cloexec: fcntl(fd, F_SETFD, 0)
NoCloexec(s) ==
    \E fail \in BOOLEAN :
        /\ Live(s)
        /\ IF fail \/ ~IsOpen(socks[s].fd)
           THEN /\ res' = [Idle EXCEPT !.op = "no_cloexec", !.sock = s,
                                       !.st = "err", !.err = "Nix"]
                /\ UNCHANGED fdt
           ELSE /\ res' = [Idle EXCEPT !.op = "no_cloexec", !.sock = s]
                /\ fdt' = [fdt EXCEPT ![socks[s].fd].cloexec = FALSE]
        /\ UNCHANGED <<socks, hands, npairs, inbox, lim, word, nsent,
                       ntaken, closes>>

\* Drop for Socket: close(self.fd), its result ignored.
Drop(s) ==
    /\ Live(s)
    /\ socks' = [socks EXCEPT ![s].st = "dropped"]
    /\ fdt' = close_fdt(socks[s].fd)
    /\ inbox' = close_inbox(socks[s].fd)
    /\ closes' = close_log(s)
    /\ res' = [Idle EXCEPT !.op = "drop", !.sock = s]
    /\ UNCHANGED <<hands, npairs, lim, word, nsent, ntaken>>

\* The caller closes a descriptor it owns.
CallerClose(fd) ==
    /\ fd \in hands
    /\ hands' = hands \ {fd}
    /\ fdt' = close_fdt(fd)
    /\ inbox' = close_inbox(fd)
    /\ res' = [Idle EXCEPT !.op = "close", !.val = fd]
    /\ UNCHANGED <<socks, npairs, lim, word, nsent, ntaken, closes>>

(***************************************************************************)
(* Inputs.                                                                 *)
(***************************************************************************)
Words == {4, 8}

\* tests::test_slice_success: data
Quad == <<222, 173, 190, 239>>

\* tests::test_struct_success: the image of TestStruct
\* { one: -64, pad: [0, 0, 0], two: 0xDEADBEEF }
Octet == <<192, 0, 0, 0, 239, 190, 173, 222>>

\* Scatter/gather arrays a peer can send that send_slice_with_len never
\* builds: a header that declares more than follows, one whose value needs
\* more than 32 bits, and one within 8 of the largest u64.
Forged ==
    { <<U64Bytes(4), <<24, 42>>>>,
      <<<<2, 0, 0, 0, 1, 0, 0, 0>>, <<24, 42>>>>,
      <<<<255, 255, 255, 255, 255, 255, 255, 255>>, <<7>>>> }

(***************************************************************************)
(* The round-trip specification: a pair was created, the caller holds two  *)
(* shared-memory descriptors, Socket 1 sends and Socket 2 receives.        *)
(***************************************************************************)
InitPair(queue, sends) ==
    /\ fdt = [fd \in Fds |->
                CASE fd = 1 -> [obj |-> EndObj(1), cloexec |-> TRUE]
                  [] fd = 2 -> [obj |-> EndObj(2), cloexec |-> TRUE]
                  [] fd = 3 -> [obj |-> ShmObj(1), cloexec |-> FALSE]
                  [] fd = 4 -> [obj |-> ShmObj(2), cloexec |-> FALSE]
                  [] OTHER -> NoEntry]
    /\ socks = [s \in SockIds |->
                  IF s <= 2 THEN [st |-> "live", fd |-> s]
                  ELSE [st |-> "unused", fd |-> 0]]
    /\ hands = {3, 4}
    /\ npairs = 1
    /\ inbox = [e \in Ends |-> <<>>]
    /\ lim = [queue |-> queue, sends |-> sends]
    /\ word \in Words
    /\ nsent = [e \in Ends |-> 0]
    /\ ntaken = [e \in Ends |-> [all |-> 0, returned |-> 0]]
    /\ closes = [s \in SockIds |-> NoClose]
    /\ res = Idle

Init == InitPair(MaxQueue, MaxSends)

\* Descriptor passing: every kind of datagram, every receive call with a
\* buffer that holds the datagram, and the descriptor arguments varied.
SendFds == {NoFds, SomeFds(<<>>), SomeFds(<<3>>), SomeFds(<<3, 4>>)}

Next ==
    \/ \E f \in SendFds : SendIovec(1, <<<<222, 173>>, <<190, 239>>>>, f)
    \/ \E f \in SendFds : SendSlice(1, Quad, f)
    \/ \E f \in SendFds : SendCodec(1, "Cbor", 123456, f)
    \/ \E n \in 0..MaxN : RecvIntoIovec(2, <<4, 8>>, n)
    \/ \E n \in 0..MaxN : RecvIntoSlice(2, 8, n)
    \/ \E n \in 0..MaxN : RecvIntoBuf(2, 8, n)
    \/ \E n \in 0..MaxN : RecvIntoBufWithLen(2, 24, n)
    \/ \E n \in 0..MaxN : RecvStructRaw(2, 4, n)
    \/ \E n \in 0..MaxN : RecvCodec(2, "Cbor", 24, n)
    \/ \E fd \in Fds \ {3, 4} : CallerClose(fd)

Spec == Init /\ [][Next]_vars

(***************************************************************************)
(* Raw and fixed-record transfers, the sizes varied.                       *)
(***************************************************************************)
RawData == {<<>>, Quad, Octet}

RawSizes == {0, 3, 4, 8, 12}

\* mem::size_of::<T>() of the record types received
StructSizes == {4, 8}

RawFds == {NoFds, SomeFds(<<3>>)}

NextRaw ==
    \/ \E f \in RawFds : SendIovec(1, <<<<222, 173>>, <<190, 239>>>>, f)
    \/ \E d \in RawData, f \in RawFds : SendSlice(1, d, f)
    \/ \E d \in RawData, f \in RawFds : SendStructRaw(1, d, f)
    \/ \E c \in RawSizes, n \in 0..1 : RecvIntoIovec(2, <<2, c>>, n)
    \/ \E c \in RawSizes, n \in 0..1 : RecvIntoSlice(2, c, n)
    \/ \E c \in RawSizes, n \in 0..1 : RecvIntoBuf(2, c, n)
    \/ \E c \in StructSizes, n \in 0..1 : RecvStructRaw(2, c, n)

SpecRaw == Init /\ [][NextRaw]_vars

(***************************************************************************)
(* Length-prefixed and codec transfers, the sizes varied.                  *)
(***************************************************************************)
FramedSizes == {3, 12, 24}

\* The values handed to the codecs
CodecValues == {123456, Unserializable}

NextFramed ==
    \/ SendSlice(1, <<24, 42>>, NoFds)
    \/ \E d \in {<<>>, Quad}, f \in RawFds : SendSliceWithLen(1, d, f)
    \/ \E iov \in Forged : SendIovec(1, iov, NoFds)
    \/ \E fmt \in Formats, v \in CodecValues, f \in RawFds :
           SendCodec(1, fmt, v, f)
    \/ \E c \in FramedSizes, n \in 0..1 : RecvIntoBufWithLen(2, c, n)
    \/ \E fmt \in Formats, c \in FramedSizes, n \in 0..1 :
           RecvCodec(2, fmt, c, n)

SpecFramed == Init /\ [][NextFramed]_vars

(***************************************************************************)
(* Sequences of datagrams: Socket 1 sends datagrams that differ in length, *)
(* content and descriptors, and Socket 2 receives them with buffers        *)
(* shorter and longer than they are.                                       *)
(***************************************************************************)
InitSeq == InitPair(SeqQueue, SeqSends)

SeqData == {Quad, Octet}

SeqSizes == {3, 8}

NextSeq ==
    \/ \E d \in SeqData, f \in RawFds : SendSlice(1, d, f)
    \/ \E f \in RawFds : SendIovec(1, <<<<1>>, <<2, 3>>>>, f)
    \/ \E c \in SeqSizes, n \in 0..MaxN : RecvIntoSlice(2, c, n)
    \/ \E n \in 0..MaxN : RecvIntoIovec(2, <<2, 2>>, n)

SpecSeq == InitSeq /\ [][NextSeq]_vars

(***************************************************************************)
(* The life of Socket values: nothing exists at first; pairs are created,  *)
(* Sockets are consumed, rebuilt from the descriptors the caller holds,    *)
(* used and dropped in any order, on a 64-bit target.  The first Socket    *)
(* sends, with or without its own descriptor attached, and the second      *)
(* receives.                                                               *)
(***************************************************************************)
InitOwn ==
    /\ fdt = [fd \in Fds |-> NoEntry]
    /\ socks = [s \in SockIds |-> [st |-> "unused", fd |-> 0]]
    /\ hands = {}
    /\ npairs = 0
    /\ inbox = [e \in Ends |-> <<>>]
    /\ lim = [queue |-> MaxQueue, sends |-> MaxSends]
    /\ word = 8
    /\ nsent = [e \in Ends |-> 0]
    /\ ntaken = [e \in Ends |-> [all |-> 0, returned |-> 0]]
    /\ closes = [s \in SockIds |-> NoClose]
    /\ res = Idle

\* The descriptor arguments of a send by Socket s: none, or its own
\* descriptor (as_raw_fd).
OwnFds(s) == {NoFds, SomeFds(<<socks[s].fd>>)}

NextOwn ==
    \/ NewSocketpair
    \/ \E fd \in Fds : FromRawFd(fd)
    \/ \E s \in SockIds : IntoRawFd(s)
    \/ \E s \in SockIds : AsRawFd(s)
    \/ \E s \in SockIds : NoCloexec(s)
    \/ \E s \in SockIds : Drop(s)
    \/ \E fd \in Fds : CallerClose(fd)
    \/ \E f \in OwnFds(1) : SendSlice(1, Quad, f)
    \/ \E n \in 0..1 : RecvIntoSlice(2, 3, n)

SpecOwn == InitOwn /\ [][NextOwn]_vars

(***************************************************************************)
(* Vocabulary of the properties.                                           *)
(***************************************************************************)
\* The last call took a datagram off the queue and did not panic.
Returned == res.took /\ res.st # "panic"

Failed(kind) == res.st = "err" /\ res.err = kind

\* A datagram as send_slice_with_len builds it: the header holds the
\* length of what follows.
Framed(d) ==
    /\ Len(d.data) >= SizeOfU64
    /\ SubSeq(d.data, 1, SizeOfU64) = U64Bytes(Len(d.data) - SizeOfU64)

Payload(d) == SubSeq(d.data, SizeOfU64 + 1, Len(d.data))

\* The objects the descriptors of an Option<F> refer to.
Objects(rfds) == [i \in 1..Len(rfds.arr) |-> fdt[rfds.arr[i]].obj]

C2_FixedRecordExact ==
    (res.op = "recv_struct_raw" /\ Returned)
    => IF res.size = Len(res.dgram.data)
       THEN res.st = "ok" /\ res.buf = res.dgram.data
       ELSE Failed("WrongRecvLength")

(***************************************************************************)
(* C2, the part the code keeps: a datagram shorter than the record fails   *)
(* with WrongRecvLength, one of the record's size is returned as it was    *)
(* sent, and of a longer one the first S' bytes are returned as the record.*)
(***************************************************************************)
C2_PrefixAccepted ==
    (res.op = "recv_struct_raw" /\ Returned)
    => IF Len(res.dgram.data) < res.size
       THEN Failed("WrongRecvLength")
       ELSE res.st = "ok" /\ res.buf = Take(res.dgram.data, res.size)

C2_Witness ==
    /\ res.op = "recv_struct_raw"
    /\ Returned
    /\ Len(res.dgram.data) > res.size
    /\ res.st = "ok"

(***************************************************************************)
(* C3.  A datagram with K >= 1 descriptors received by recv_into_iovec or  *)
(* recv_into_slice with F = [RawFd; N], N >= K: the call returns the K     *)
(* descriptors, in order, each referring to the object that was sent.      *)
(***************************************************************************)
C3_DescriptorPassing ==
    ( /\ res.op \in {"recv_into_iovec", "recv_into_slice"}
      /\ res.took
      /\ Len(res.dgram.scm) >= 1
      /\ res.n >= Len(res.dgram.scm) )
    => /\ res.st = "ok"
       /\ res.rfds.some
       /\ Objects(res.rfds) = res.dgram.scm

(***************************************************************************)
(* C3, the part the code keeps: with N = K the call returns the K          *)
(* descriptors, in order, each referring to the object that was sent.      *)
(***************************************************************************)
C3_ExactCapacity ==
    ( /\ res.op \in {"recv_into_iovec", "recv_into_slice"}
      /\ res.took
      /\ Len(res.dgram.scm) >= 1
      /\ res.n = Len(res.dgram.scm) )
    => /\ res.st = "ok"
       /\ res.rfds.some
       /\ Objects(res.rfds) = res.dgram.scm
       /\ \A i \in 1..Len(res.rfds.arr) :
              /\ fdt[res.rfds.arr[i]].cloexec
              /\ res.rfds.arr[i] \in hands

C3_Witness ==
    /\ res.op = "recv_into_slice"
    /\ res.took
    /\ Len(res.dgram.scm) = 2
    /\ res.n = 2
    /\ res.st = "ok"

(***************************************************************************)
(* C4.  Every live Socket owns exactly one open descriptor, which no other *)
(* Socket and not the caller owns; a descriptor is closed exactly once, at *)
(* the drop of the Socket that owns it; a Socket consumed by into_raw_fd   *)
(* never closes its descriptor, which stays open in the caller's hands;    *)
(* no descriptor is closed twice, and as_raw_fd transfers nothing.         *)
(***************************************************************************)
C4_Ownership ==
    /\ \A s \in SockIds :
           /\ Live(s)
              => /\ IsOpen(socks[s].fd)
                 /\ socks[s].fd \notin hands
                 /\ \A t \in SockIds \ {s} :
                        Live(t) => socks[t].fd # socks[s].fd
                 /\ closes[s] = NoClose
           /\ socks[s].st = "dropped" <=> closes[s].n = 1
           /\ closes[s].n <= 1
           /\ closes[s].n = 1 => closes[s].hit = "own"
           /\ socks[s].st \in {"unused", "forgotten"} => closes[s] = NoClose
    /\ \A fd \in hands : IsOpen(fd)
    /\ res.op = "into_raw_fd"
       => /\ socks[res.sock].st = "forgotten"
          /\ IsOpen(res.val)
          /\ res.val \in hands
    /\ res.op = "as_raw_fd"
       => /\ Live(res.sock)
          /\ socks[res.sock].fd = res.val
          /\ res.val \notin hands

C4_Witness ==
    /\ \E s \in SockIds : socks[s].st = "forgotten"
    /\ \E s \in SockIds : socks[s].st = "dropped" /\ closes[s].hit = "own"
    /\ \E s \in SockIds : Live(s) /\ s > 2
    /\ res.op = "as_raw_fd"

(***************************************************************************)
(* C5.  The i-th receive call that returns observes only the i-th          *)
(* datagram sent: its bytes are a prefix of that datagram's bytes and its  *)
(* descriptors are descriptors of that datagram; nothing of another        *)
(* datagram is combined with it, and bytes cut off by a short buffer are   *)
(* not delivered later.                                                    *)
(***************************************************************************)
\* The last call observed the datagram it took, and nothing else.
ObservesOwn ==
    /\ res.bytes = Min(Len(res.dgram.data), res.size)
    /\ Take(res.buf, res.bytes) = Take(res.dgram.data, res.bytes)
    /\ res.buf = Take(res.buf, res.bytes) \o Zeros(res.size - res.bytes)
    /\ IsPrefix(Objects(res.rfds), res.dgram.scm)

\* The queue holds, whole and in order, the datagrams not yet taken.
QueueWhole ==
    /\ Len(inbox[2]) = nsent[2] - ntaken[2].all
    /\ \A i \in 1..Len(inbox[2]) : inbox[2][i].seq = ntaken[2].all + i

C5_OneSendOneReceive ==
    /\ QueueWhole
    /\ (res.took /\ Returned)
       => /\ res.dgram.seq = ntaken[2].returned
          /\ ObservesOwn

\* The same with the calls that took a datagram counted, those that
\* panicked included.
C5_InOrderOfTaking ==
    /\ QueueWhole
    /\ res.took => res.dgram.seq = ntaken[2].all
    /\ (res.took /\ Returned) => ObservesOwn
C5_Witness ==
    /\ res.took
    /\ Returned
    /\ res.dgram.seq = 2
    /\ ntaken[2].returned = 2
    /\ res.size < Len(res.dgram.data)
    /\ res.rfds.some

(***************************************************************************)
(* C6.  send_slice_with_len(B) returns len(B) + 8 and queues one datagram, *)
(* the 8-byte header holding len(B) followed by B; recv_into_buf_with_len  *)
(* with buf_size >= len(B) + 8 then returns bytes_received = len(B) + 8,   *)
(* the payload B and the declared length len(B).                           *)
(***************************************************************************)
C6_FramedRoundTrip ==
    /\ (res.op = "send_slice_with_len" /\ res.st = "ok")
       => /\ res.bytes = Len(res.sent) + SizeOfU64
          /\ res.dgram.data = U64Bytes(Len(res.sent)) \o res.sent
          /\ inbox[2] # <<>>
          /\ inbox[2][Len(inbox[2])] = res.dgram
          /\ nsent[2] = res.dgram.seq
    /\ ( /\ res.op = "recv_into_buf_with_len"
         /\ Returned
         /\ Framed(res.dgram)
         /\ res.size >= Len(Payload(res.dgram)) + SizeOfU64 )
       => /\ res.st = "ok"
          /\ res.bytes = Len(Payload(res.dgram)) + SizeOfU64
          /\ res.buf = Payload(res.dgram)
          /\ res.len = U64Bytes(Len(Payload(res.dgram)))

C6_Witness ==
    /\ res.op = "recv_into_buf_with_len"
    /\ Returned
    /\ Framed(res.dgram)
    /\ Payload(res.dgram) = Quad
    /\ res.size >= Len(Quad) + SizeOfU64
    /\ res.buf = Quad

(***************************************************************************)
(* C7.  send_slice(B) then recv_into_slice / recv_into_buf with a buffer   *)
(* of capacity C: the call succeeds with bytes_received = min(len(B), C),  *)
(* and the first min(len(B), C) bytes of the buffer are those of B.        *)
(***************************************************************************)
C7_RawRoundTrip ==
    (res.op \in {"recv_into_slice", "recv_into_buf"} /\ Returned)
    => /\ res.st = "ok"
       /\ res.bytes = Min(Len(res.dgram.data), res.size)
       /\ Len(res.buf) = res.size
       /\ Take(res.buf, res.bytes) = Take(res.dgram.data, res.bytes)

C7_Witness ==
    /\ res.op \in {"recv_into_slice", "recv_into_buf"}
    /\ Returned
    /\ res.size < Len(res.dgram.data)
    /\ res.size > 0
    /\ res.st = "ok"

(***************************************************************************)
(* C8.  In recv_cbor / recv_json / recv_bincode: when bytes_received       *)
(* differs from the declared length + 8 the result is WrongRecvLength and  *)
(* the decoder is not applied; a codec error is returned only when the     *)
(* length check passed and the decoder rejected the payload; a Nix error   *)
(* only when recvmsg failed.                                               *)
(***************************************************************************)
\* The u64 the datagram declares: its first 8 bytes, zeros where it is short.
Declared(d) == Take(d.data, SizeOfU64) \o Zeros(SizeOfU64 - Len(d.data))

\* bytes_received = declared length + 8, over the naturals.
LengthMatches ==
    LET a == AddCarry(Declared(res.dgram), SizeOfU64)
        got == Min(Len(res.dgram.data), res.size + SizeOfU64)
    IN  a.carry = 0 /\ a.sum = U64Bytes(got)

C8_ErrorSeparation ==
    (res.op = "recv_codec" /\ res.st # "panic")
    => /\ (res.took /\ ~LengthMatches)
          => Failed("WrongRecvLength") /\ ~res.decoded
       /\ Failed("WrongRecvLength") => res.took /\ ~LengthMatches
       /\ (res.st = "err" /\ res.err \in Formats)
          => /\ res.err = res.fmt
             /\ res.took
             /\ LengthMatches
             /\ res.decoded
             /\ ~from_slice(res.fmt, Take(Payload(res.dgram), res.size)).ok
       /\ Failed("Nix") <=> ~res.took

(***************************************************************************)
(* C8, the part the code keeps: on a target whose usize has 64 bits the    *)
(* three error kinds are separated as claimed, in the calls that return.   *)
(***************************************************************************)
C8_SeparatedOn64 == (word = 8) => C8_ErrorSeparation

C8_Witness ==
    /\ word = 8
    /\ res.op = "recv_codec"
    /\ res.took
    /\ LengthMatches
    /\ res.decoded
    /\ Failed(res.fmt)

(***************************************************************************)
(* C9.  For a value v with decode(encode(v)) = v, send_cbor / send_json /  *)
(* send_bincode of v followed by the matching receive with a buffer size   *)
(* of at least len(encode(v)) + 8 returns exactly v, and no descriptors    *)
(* when none were sent.  An encode failure is returned as a codec error    *)
(* and no datagram is sent.                                                *)
(***************************************************************************)
\* The datagram that send_codec of v makes in the format fmt.
Encoded(fmt, v) ==
    LET enc == to_vec(fmt, v)
    IN  U64Bytes(Len(enc.bytes)) \o enc.bytes

RoundTrips(fmt, v) ==
    /\ to_vec(fmt, v).ok
    /\ from_slice(fmt, to_vec(fmt, v).bytes) = [ok |-> TRUE, val |-> v]

C9_Received ==
    \A v \in CodecValues :
        ( /\ res.op = "recv_codec"
          /\ res.took
          /\ RoundTrips(res.fmt, v)
          /\ res.dgram.data = Encoded(res.fmt, v)
          /\ res.size >= Len(res.dgram.data)
          /\ res.dgram.some => Returned )
        => /\ res.st = "ok"
           /\ res.val = v
           /\ ~res.dgram.some => res.rfds = NoFds

C9_EncodeFailure ==
    (res.op = "send_codec" /\ ~to_vec(res.fmt, res.val).ok)
    => res.st = "err" /\ res.err = res.fmt /\ res.dgram = NoDgram

C9_NothingSent ==
    (res'.op = "send_codec" /\ res'.st = "err" /\ res'.err \in Formats)
    => inbox' = inbox /\ nsent' = nsent

C9_CodecRoundTrip ==
    /\ [](C9_Received /\ C9_EncodeFailure)
    /\ [][C9_NothingSent]_vars

C9_Witness ==
    /\ res.op = "recv_codec"
    /\ res.fmt = "Json"
    /\ res.dgram.data = Encoded("Json", 123456)
    /\ res.size >= Len(res.dgram.data)
    /\ res.val = 123456
    /\ res.st = "ok"

(***************************************************************************)
(* C10.  When a datagram was sent with no descriptors (fds = None), every  *)
(* receive operation, whatever its descriptor capacity N >= 0, returns     *)
(* None for the descriptors, together with the bytes.                      *)
(***************************************************************************)
C10_NoDescriptors ==
    (res.took /\ ~res.dgram.some)
    => /\ res.st # "panic"
       /\ res.rfds = NoFds
       /\ res.op \in {"recv_into_iovec", "recv_into_slice", "recv_into_buf",
                      "recv_into_buf_with_len"}
          => /\ res.st = "ok"
             /\ res.bytes = Min(Len(res.dgram.data),
                                res.size + (IF res.op = "recv_into_buf_with_len"
                                            THEN SizeOfU64 ELSE 0))

C10_Witness ==
    /\ res.took
    /\ ~res.dgram.some
    /\ res.n = MaxN
    /\ res.st = "ok"
    /\ res.op = "recv_into_iovec"
    /\ res.bytes > 0

(***************************************************************************)
(* C11.  When recv_struct_raw / recv_struct or recv_cbor / recv_json /     *)
(* recv_bincode returns WrongRecvLength or a decode error after the        *)
(* datagram was read, every descriptor that arrived with the datagram has  *)
(* been closed: each open descriptor is owned by a Socket or was returned  *)
(* to the caller.                                                          *)
(***************************************************************************)
\* The open descriptors that neither the caller nor a live Socket owns.
Leaked ==
    {fd \in Fds : /\ IsOpen(fd)
                  /\ fd \notin hands
                  /\ \A s \in SockIds : Live(s) => socks[s].fd # fd}

C11_NoDescriptorLost ==
    ( /\ res.op \in {"recv_struct_raw", "recv_codec"}
      /\ res.took
      /\ res.st = "err"
      /\ res.err \in {"WrongRecvLength"} \cup Formats )
    => Leaked = {}

\* C11, what the code does: the descriptors of a call that returns stay
\* open, and the caller owns them exactly when the call succeeded.
C11_LostOnError ==
    ( /\ res.op \in {"recv_struct_raw", "recv_codec"}
      /\ Returned )
    => /\ res.st = "ok" => Leaked = {}
       /\ (res.st = "err" /\ res.dgram.scm # <<>> /\ res.n >= 1)
          => Leaked # {} /\ res.rfds = NoFds

C11_Witness ==
    /\ res.op = "recv_codec"
    /\ res.took
    /\ Failed("WrongRecvLength")
    /\ res.dgram.scm # <<>>
    /\ Leaked # {}

====
